---- MODULE Spec2Model ----
(***************************************************************************)
(* PersonTracker (src/main.py): load_data parses the detection file into   *)
(* rows, frames_following walks the rows, extracts a center and a          *)
(* histogram per bounding box and scores every box against the boxes of    *)
(* the previous row; calculate_similarity fuses the two cue probabilities  *)
(* through a fixed Bayesian network.                                       *)
(*                                                                         *)
(* Numbers.  A token of the detection file is held in tenths (25 is the    *)
(* text "2.5", 20 the text "2").  A distance is held as the radicand of    *)
(* math.sqrt (the squared distance), so that a distance probability        *)
(* 1 - sqrt(distance)/sqrt(max_distance) is the exact pair of radicands.   *)
(* A cue probability given to calculate_similarity is k/Grid, and          *)
(* its result is held multiplied by Grid * Grid * 10.                      *)
(***************************************************************************)
EXTENDS Integers, Sequences, FiniteSets

VARIABLES
    records,              \* ghost: the records the detection file was written from
    file,                 \* the lines of bboxes.txt
    pc,                   \* position of run()
    err,                  \* the exception that ended run(), or "none"
    data,                 \* rows of the DataFrame load_data returns
    index,                \* rows of df.iterrows() already finished
    bpos,                 \* bounding boxes of the current row already handled
    image,                \* the image of the current row
    image_shape,          \* frames_following: image_shape
    before_frame_data,    \* frames_following: before_frame_data
    actual_frame_data,    \* frames_following: actual_frame_data
    image_frames_numbers, \* frames_following: image_frames_numbers
    frames_numbers,       \* frames_following: frames_numbers
    scored,               \* one entry per calculate_similarity call of frames_following
    queries,              \* (distance_probability, histogram_probability) pairs to fuse
    results               \* what calculate_similarity returned for them

vars == <<records, file, pc, err, data, index, bpos, image, image_shape,
          before_frame_data, actual_frame_data, image_frames_numbers,
          frames_numbers, scored, queries, results>>

(***************************************************************************)
(* Bounds of the model.                                                    *)
(***************************************************************************)
\* lines of a detection file made of well-formed records
MaxFileLines == 9
\* records of a detection file whose counts may disagree with its box lines
MaxRecords == 2
\* declared count, and supplied box lines, of such a record
MaxBoxes == 2
\* cue probabilities are k/Grid, k in 0..Grid
Grid == 10

(***************************************************************************)
(* The inputs: the frames directory and the box lines of the file.         *)
(***************************************************************************)
\* image files of the frames directory
Names == {"a", "b"}

\* cv2.imread of an existing file: shape (rows, cols, channels) and, the
\* images being uniformly grey, the grey level of every pixel
Images == [a |-> [shape |-> <<4, 6, 3>>, gray |-> 0],
           b |-> [shape |-> <<8, 10, 3>>, gray |-> 255]]

GrayLevels == {0, 255}

\* box lines "x y w h" in tenths: "-0.5 -0.5 2.5 2.5", "6 4 4 4", "0 0 40 40"
FileBoxes == {<<-5, -5, 25, 25>>, <<60, 40, 40, 40>>, <<0, 0, 400, 400>>}

None == [some |-> FALSE, val |-> <<>>]
Some(v) == [some |-> TRUE, val |-> v]

NameLine(nm) == [name |-> nm, nums |-> <<>>]
CountLine(n) == [name |-> "", nums |-> <<10 * n>>]
BoxLine(b) == [name |-> "", nums |-> b]

RECURSIVE Flatten(_)
\* the text of a file written from the records rs
Flatten(rs) ==
    IF rs = <<>> THEN <<>>
    ELSE <<NameLine(Head(rs).name), CountLine(Head(rs).n)>>
         \o [j \in 1..Len(Head(rs).boxes) |-> BoxLine(Head(rs).boxes[j])]
         \o Flatten(Tail(rs))

RECURSIVE SumSeq(_)
SumSeq(ns) == IF ns = <<>> THEN 0 ELSE Head(ns) + SumSeq(Tail(ns))

\* the well-formed records named nms with ns[i] box lines each, the box lines
\* of the whole file being bxs
WellFormedRecords(nms, ns, bxs) ==
    [i \in 1..Len(ns) |->
        LET before == SumSeq(SubSeq(ns, 1, i - 1))
        IN [name |-> nms[i], n |-> ns[i],
            boxes |-> SubSeq(bxs, before + 1, before + ns[i])]]

\* records whose declared count and supplied box lines are independent
AnyRecords ==
    {[name |-> nm, n |-> n, boxes |-> bs] :
        nm \in Names, n \in 0..MaxBoxes,
        bs \in UNION {[1..m -> FileBoxes] : m \in 0..MaxBoxes}}

AnyRecordSeqs == UNION {[1..k -> AnyRecords] : k \in 0..MaxRecords}

(***************************************************************************)
(* load_data                                                               *)
(***************************************************************************)
\* int(line) succeeds on a line that is one integer literal
IsIntLiteral(line) ==
    line.name = "" /\ Len(line.nums) = 1 /\ line.nums[1] % 10 = 0

IntOf(line) == line.nums[1] \div 10

\* float(number) succeeds on every token of a numeric line
IsFloats(line) == line.name = ""

\* a conversion that rounds down instead of toward zero
IntOfFloatFloor(t) == t \div 10

\* int(float(number)): truncation toward zero
IntOfFloat(t) == IF t >= 0 THEN t \div 10 ELSE -((-t) \div 10)

BboxPoints(line) == [k \in 1..Len(line.nums) |-> IntOfFloat(line.nums[k])]

LoadStart == [bboxes_count |-> 0, row |-> NameLine(""), bboxes |-> <<>>,
              data |-> <<>>, err |-> "none"]

\* one iteration of "for line in lines"
LoadLine(st, line) ==
    IF st.bboxes_count = 0
    THEN [st EXCEPT !.row = line, !.bboxes = <<>>, !.bboxes_count = -1]
    ELSE IF st.bboxes_count = -1
    THEN IF IsIntLiteral(line)
         THEN [st EXCEPT !.bboxes_count = IntOf(line)]
         ELSE [st EXCEPT !.err = "ValueError"]
    ELSE IF ~IsFloats(line)
    THEN [st EXCEPT !.err = "ValueError"]
    ELSE LET bb == Append(st.bboxes, BboxPoints(line))
             c == st.bboxes_count - 1
         IN [st EXCEPT !.bboxes = bb, !.bboxes_count = c,
                       !.data = IF c = 0
                                THEN Append(@, [image_name |-> st.row,
                                                bounding_boxes |-> bb])
                                ELSE @]

RECURSIVE LoadLines(_, _)
LoadLines(st, lines) ==
    IF lines = <<>> \/ st.err # "none" THEN st
    ELSE LoadLines(LoadLine(st, Head(lines)), Tail(lines))

load_data(lines) == LoadLines(LoadStart, lines)

(***************************************************************************)
(* The helpers of frames_following                                         *)
(***************************************************************************)
Max(a, b) == IF a >= b THEN a ELSE b
Min(a, b) == IF a <= b THEN a ELSE b

\* cv2.imread: the decoded image, or None when the file does not exist
load_image(line) ==
    IF line.name \in Names THEN Some(Images[line.name]) ELSE None

\* int(v / 2) for the integer v: truncation toward zero
IntOfHalf(v) == IF v >= 0 THEN v \div 2 ELSE -((-v) \div 2)

calculate_center(bbox) ==
    <<IntOfHalf(2 * bbox[1] + bbox[3]), IntOfHalf(2 * bbox[2] + bbox[4])>>

\* the radicand of math.sqrt in calculate_distance
calculate_distance(point1, point2) ==
    (point2[1] - point1[1]) * (point2[1] - point1[1])
    + (point2[2] - point1[2]) * (point2[2] - point1[2])

\* probability = 1 - sqrt(distance) / sqrt(max_distance), held as the radicands
compute_distance_probability(img_shape, actual_center, before_center) ==
    [max_distance |-> calculate_distance(<<0, 0>>, <<img_shape[2], img_shape[1]>>),
     distance |-> calculate_distance(actual_center, before_center)]

\* number of indices of the slice start:stop of an axis of length len
SliceLen(start, stop, len) ==
    LET lo == IF start < 0 THEN Max(start + len, 0) ELSE Min(start, len)
        hi == IF stop < 0 THEN Max(stop + len, 0) ELSE Min(stop, len)
    IN Max(hi - lo, 0)

\* image[y:y + h, x:x + w]
cut_image(img, bbox) ==
    [rows |-> SliceLen(bbox[2], bbox[2] + bbox[4], img.shape[1]),
     cols |-> SliceLen(bbox[1], bbox[1] + bbox[3], img.shape[2]),
     gray |-> img.gray]

\* cv2.cvtColor raises cv2.error on an empty image
IsEmptyImage(crop) == crop.rows * crop.cols = 0

\* pixel counts per grey level
create_histogram(crop) ==
    [g \in GrayLevels |-> IF g = crop.gray THEN crop.rows * crop.cols ELSE 0]

RECURSIVE SumOver(_, _)
SumOver(f, S) ==
    IF S = {} THEN 0
    ELSE LET g == CHOOSE x \in S : TRUE IN f[g] + SumOver(f, S \ {g})

\* sum of min(hist1/sum(hist1), hist2/sum(hist2)), as numerator and denominator
compute_histogram_similarity(hist1, hist2) ==
    LET s1 == SumOver(hist1, GrayLevels)
        s2 == SumOver(hist2, GrayLevels)
    IN [num |-> SumOver([g \in GrayLevels |-> Min(hist1[g] * s2, hist2[g] * s1)],
                        GrayLevels),
        den |-> s1 * s2]

\* an empty list in place of None
InitBeforeFrameDataEmpty == Some(<<>>)

\* line 66: before_frame_data = None
InitBeforeFrameData == None

\* lines 75-77: the object data of one bounding box (frame and box are ghosts
\* naming the row and the position the object was extracted from)
ObjectData(img, bbox, row, j) ==
    [center |-> calculate_center(bbox),
     histogram |-> create_histogram(cut_image(img, bbox)),
     frame |-> row, box |-> j]

\* lines 79-88: the calls of calculate_similarity for one object, in order
ScoreAgainst(shape, obj, before) ==
    [i \in 1..Len(before) |->
        [frame |-> obj.frame, box |-> obj.box,
         before_frame |-> before[i].frame, before_box |-> before[i].box,
         img_shape |-> shape,
         distance_probability |->
             compute_distance_probability(shape, obj.center, before[i].center),
         compare_histograms |->
             compute_histogram_similarity(obj.histogram, before[i].histogram)]]

\* lines 78, 89-90: the new-track marker of an object with no previous frame
Markers(before, numbers) ==
    IF before.some THEN numbers ELSE Append(numbers, -1)

\* the previous objects kept and the new ones added to them
NextBeforeFrameDataKept(before, actual) == Some(before.val \o actual)

\* line 93: before_frame_data = actual_frame_data
NextBeforeFrameData(before, actual) == Some(actual)

(***************************************************************************)
(* run(): load_data, then frames_following                                 *)
(***************************************************************************)
Locals ==
    /\ pc = "start"
    /\ err = "none"
    /\ data = <<>>
    /\ index = 0
    /\ bpos = 0
    /\ image = None
    /\ image_shape = None
    /\ before_frame_data = InitBeforeFrameData
    /\ actual_frame_data = <<>>
    /\ image_frames_numbers = <<>>
    /\ frames_numbers = <<>>
    /\ scored = <<>>

NoQueries ==
    /\ queries = <<>>
    /\ results = <<>>

\* a detection file of well-formed records, of at most MaxFileLines lines
Init ==
    /\ \E n \in 0..(MaxFileLines \div 2) :
       \E ns \in [1..n -> 0..(MaxFileLines - 2)] :
           /\ SumSeq(ns) + 2 * n <= MaxFileLines
           /\ \E nms \in [1..n -> Names], bxs \in [1..SumSeq(ns) -> FileBoxes] :
                  records = WellFormedRecords(nms, ns, bxs)
    /\ file = Flatten(records)
    /\ Locals
    /\ NoQueries

\* a detection file whose counts may disagree with the box lines supplied
InitLoad ==
    /\ records \in AnyRecordSeqs
    /\ file = Flatten(records)
    /\ Locals
    /\ NoQueries

Raise(e) ==
    /\ pc' = "raised"
    /\ err' = e

\* lines 18, 22-61
LoadData ==
    /\ pc = "start"
    /\ LET st == load_data(file)
       IN IF st.err = "none"
          THEN data' = st.data /\ pc' = "rows" /\ err' = err
          ELSE data' = data /\ Raise(st.err)
    /\ UNCHANGED <<records, file, index, bpos, image, image_shape,
                   before_frame_data, actual_frame_data, image_frames_numbers,
                   frames_numbers, scored, queries, results>>

\* lines 67-73: the next row of df.iterrows()
BeginFrame ==
    /\ pc = "rows"
    /\ index < Len(data)
    /\ LET img == load_image(data[index + 1].image_name)
       IN /\ image' = img
          /\ IF image_shape.some
             THEN /\ image_shape' = image_shape
                  /\ pc' = "bboxes" /\ err' = err
             ELSE IF img.some
             THEN /\ image_shape' = Some(img.val.shape)
                  /\ pc' = "bboxes" /\ err' = err
             ELSE /\ image_shape' = image_shape
                  /\ Raise("AttributeError")
    /\ image_frames_numbers' = <<>>
    /\ actual_frame_data' = <<>>
    /\ bpos' = 0
    /\ UNCHANGED <<records, file, data, index, before_frame_data,
                   frames_numbers, scored, queries, results>>

\* lines 74-91: one bounding box of the current row
ProcessBbox ==
    /\ pc = "bboxes"
    /\ bpos < Len(data[index + 1].bounding_boxes)
    /\ LET bbox == data[index + 1].bounding_boxes[bpos + 1]
       IN IF Len(bbox) # 4
          THEN /\ Raise("ValueError")
               /\ UNCHANGED <<bpos, actual_frame_data, image_frames_numbers, scored>>
          ELSE IF ~image.some
          THEN /\ Raise("TypeError")
               /\ UNCHANGED <<bpos, actual_frame_data, image_frames_numbers, scored>>
          ELSE IF IsEmptyImage(cut_image(image.val, bbox))
          THEN /\ Raise("cv2.error")
               /\ UNCHANGED <<bpos, actual_frame_data, image_frames_numbers, scored>>
          ELSE LET obj == ObjectData(image.val, bbox, index, bpos)
               IN /\ scored' = IF before_frame_data.some
                               THEN scored \o ScoreAgainst(image_shape.val, obj,
                                                           before_frame_data.val)
                               ELSE scored
                  /\ image_frames_numbers' =
                         Markers(before_frame_data, image_frames_numbers)
                  /\ actual_frame_data' = Append(actual_frame_data, obj)
                  /\ bpos' = bpos + 1
                  /\ UNCHANGED <<pc, err>>
    /\ UNCHANGED <<records, file, data, index, image, image_shape,
                   before_frame_data, frames_numbers, queries, results>>

\* lines 92-93: the row is finished
EndFrame ==
    /\ pc = "bboxes"
    /\ bpos = Len(data[index + 1].bounding_boxes)
    /\ frames_numbers' = Append(frames_numbers, image_frames_numbers)
    /\ before_frame_data' = NextBeforeFrameData(before_frame_data, actual_frame_data)
    /\ index' = index + 1
    /\ pc' = "rows"
    /\ UNCHANGED <<records, file, err, data, bpos, image, image_shape,
                   actual_frame_data, image_frames_numbers, scored, queries,
                   results>>

\* lines 19-20: frames_following has walked every row, run returns
Return ==
    /\ pc = "rows"
    /\ index = Len(data)
    /\ pc' = "done"
    /\ UNCHANGED <<records, file, err, data, index, bpos, image, image_shape,
                   before_frame_data, actual_frame_data, image_frames_numbers,
                   frames_numbers, scored, queries, results>>

(***************************************************************************)
(* calculate_similarity: the Bayesian network Distance -> Similarity <-    *)
(* Histogram and the query of Similarity by variable elimination.          *)
(* Probabilities of the two cues are in units of 1/Grid, the entries of    *)
(* the Similarity table in tenths.                                         *)
(***************************************************************************)
\* lines 146-148: values=[[1 - distance_probability], [distance_probability]]
cpd_distance(distance_probability) ==
    <<Grid - distance_probability, distance_probability>>

\* lines 149-151
cpd_histogram(histogram_probability) ==
    <<Grid - histogram_probability, histogram_probability>>

\* lines 152-153: one row per state of Similarity, one column per evidence state
cpd_similarity == <<<<10, 5, 3, 2>>, <<0, 5, 7, 8>>>>

\* the columns read as if Histogram were the first evidence variable
EvidenceColumnSwapped(dist, hist) == 2 * hist + dist + 1

\* line 154: evidence=['Distance', 'Histogram'], evidence_card=[2, 2]: the
\* column of the states (dist, hist), the last evidence variable varying fastest
EvidenceColumn(dist, hist) == 2 * dist + hist + 1

\* lines 158-159: the marginal of Similarity, summing out Distance and Histogram
QuerySimilarity(d, h) ==
    [s \in 1..2 |->
        SumOver([e \in {0, 1} \X {0, 1} |->
                    cpd_distance(d)[e[1] + 1] * cpd_histogram(h)[e[2] + 1]
                    * cpd_similarity[s][EvidenceColumn(e[1], e[2])]],
                {0, 1} \X {0, 1})]

\* the probability of the other state of Similarity
ProbabilityOtherImage(values) == values[1]

\* line 160: probability_same_image = query.values[1]
ProbabilitySameImage(values) == values[2]

calculate_similarity(distance_probability, histogram_probability) ==
    ProbabilitySameImage(QuerySimilarity(distance_probability, histogram_probability))

\* two pairs of cue probabilities to fuse
InitFusion ==
    /\ records = <<>>
    /\ file = <<>>
    /\ pc = "fuse"
    /\ err = "none"
    /\ data = <<>>
    /\ index = 0
    /\ bpos = 0
    /\ image = None
    /\ image_shape = None
    /\ before_frame_data = InitBeforeFrameData
    /\ actual_frame_data = <<>>
    /\ image_frames_numbers = <<>>
    /\ frames_numbers = <<>>
    /\ scored = <<>>
    /\ queries \in [1..2 -> (0..Grid) \X (0..Grid)]
    /\ results = <<>>

\* lines 141-162, on the next pair
CalculateSimilarity ==
    /\ pc = "fuse"
    /\ Len(results) < Len(queries)
    /\ LET q == queries[Len(results) + 1]
       IN results' = Append(results, calculate_similarity(q[1], q[2]))
    /\ UNCHANGED <<records, file, pc, err, data, index, bpos, image, image_shape,
                   before_frame_data, actual_frame_data, image_frames_numbers,
                   frames_numbers, scored, queries>>

Next == LoadData \/ BeginFrame \/ ProcessBbox \/ EndFrame \/ Return

NextFusion == CalculateSimilarity

Spec == Init /\ [][Next]_vars

SpecLoad == InitLoad /\ [][Next]_vars

SpecFusion == InitFusion /\ [][NextFusion]_vars

(***************************************************************************)
(* Properties                                                              *)
(***************************************************************************)
\* the rows of data as frames: row k of data is frame k - 1
Boxes(k) == data[k].bounding_boxes

\* the calls of calculate_similarity made while frame t was the current frame
ScoredAt(t) == {i \in 1..Len(scored) : scored[i].frame = t}

\* z is the integer part of the token t (in tenths), stated without division
IsTruncation(z, t) ==
    LET az == IF z >= 0 THEN z ELSE -z
        at == IF t >= 0 THEN t ELSE -t
    IN z * t >= 0 /\ az * 10 <= at /\ at < az * 10 + 10

\* C1: every processed frame has one entry of frames_numbers per bounding box
\* of its row, each the new-track marker -1 or a track identity.
C1OneEntryPerBox ==
    \A k \in 1..Len(frames_numbers) :
        /\ Len(frames_numbers[k]) = Len(Boxes(k))
        /\ \A j \in 1..Len(frames_numbers[k]) : frames_numbers[k][j] >= -1

\* C2: while the first frame is processed and once it is finished, each of its
\* boxes handled so far has the marker -1 and no probability was computed for
\* the first frame.
C2FirstFrameBirths ==
    /\ (pc = "bboxes" /\ index = 0) =>
           /\ image_frames_numbers = [j \in 1..bpos |-> -1]
           /\ scored = <<>>
    /\ Len(frames_numbers) >= 1 =>
           frames_numbers[1] = [j \in 1..Len(Boxes(1)) |-> -1]
    /\ ScoredAt(0) = {}

\* C2 witness: a first frame of two boxes is finished and a later frame was scored
C2Witness ==
    /\ Len(frames_numbers) >= 2
    /\ Len(Boxes(1)) = 2
    /\ frames_numbers[1] = <<-1, -1>>
    /\ scored # <<>>

\* the closed form of the fused probability, times Grid * Grid * 10
Fused(d, h) ==
    (Grid - d) * (Grid - h) * 0 + (Grid - d) * h * 5
    + d * (Grid - h) * 7 + d * h * 8

\* C3: calculate_similarity(d, h) is (1-d)(1-h)*0.0 + (1-d)h*0.5 + d(1-h)*0.7
\* + dh*0.8, with the corners 0.0, 0.5, 0.7 and 0.8.
C3FusionTable ==
    \A i \in 1..Len(results) :
        LET d == queries[i][1]
            h == queries[i][2]
        IN /\ results[i] = Fused(d, h)
           /\ (d = 0 /\ h = 0) => results[i] = 0
           /\ (d = 0 /\ h = Grid) => results[i] = 5 * Grid * Grid
           /\ (d = Grid /\ h = 0) => results[i] = 7 * Grid * Grid
           /\ (d = Grid /\ h = Grid) => results[i] = 8 * Grid * Grid

\* C3 witness: the two asymmetric corners were fused
C3Witness ==
    /\ Len(results) = 2
    /\ queries = <<<<Grid, 0>>, <<0, Grid>>>>
    /\ results = <<7 * Grid * Grid, 5 * Grid * Grid>>

\* C4: raising one cue probability with the other fixed never lowers the
\* fused probability.
C4Monotone ==
    Len(results) = 2 =>
        /\ (queries[1][1] <= queries[2][1] /\ queries[1][2] = queries[2][2])
               => results[1] <= results[2]
        /\ (queries[1][2] <= queries[2][2] /\ queries[1][1] = queries[2][1])
               => results[1] <= results[2]

\* C4 witness: two fusions that differ in the distance cue alone
C4Witness ==
    /\ Len(results) = 2
    /\ queries[1][1] < queries[2][1]
    /\ queries[1][2] = queries[2][2]
    /\ results[1] < results[2]

\* 0 <= 1 - sqrt(distance)/sqrt(max_distance) <= 1
InUnitInterval(p) == p.distance <= p.max_distance /\ p.distance >= 0

\* C5: every distance probability computed by frames_following is in [0, 1].
C5DistanceInUnitInterval ==
    \A i \in 1..Len(scored) : InUnitInterval(scored[i].distance_probability)

\* C6: the extent given to compute_distance_probability for a frame is the
\* shape of that frame's own image.
C6OwnFrameExtent ==
    \A i \in 1..Len(scored) :
        scored[i].img_shape = load_image(data[scored[i].frame + 1].image_name).val.shape

\* C7: for a file of well-formed records with n >= 1, load_data returns one row
\* per record, in order, with the record's name and its boxes, each number
\* truncated to an integer.
C7RowsOfRecords ==
    (pc # "start" /\ \A r \in 1..Len(records) : records[r].n >= 1) =>
        /\ err # "ValueError"
        /\ Len(data) = Len(records)
        /\ \A r \in 1..Len(records) :
            /\ data[r].image_name = NameLine(records[r].name)
            /\ Len(Boxes(r)) = records[r].n
            /\ \A j \in 1..records[r].n :
                   /\ Len(Boxes(r)[j]) = 4
                   /\ \A k \in 1..4 :
                          IsTruncation(Boxes(r)[j][k], records[r].boxes[j][k])

\* C7 witness: a file of two records, one of two boxes with negative numbers
C7Witness ==
    /\ pc = "rows"
    /\ Len(records) = 2
    /\ records[1].n = 2
    /\ records[2].n = 1
    /\ records[1].boxes[2] = <<-5, -5, 25, 25>>
    /\ Len(data) = 2

\* C8: a record that declares zero boxes has its row, with no boxes, at its
\* position, and is processed as a frame of the sequence.
C8EmptyFrameKept ==
    pc # "start" =>
        /\ Len(data) = Len(records)
        /\ \A r \in 1..Len(records) :
               records[r].n = 0 =>
                   /\ data[r].image_name = NameLine(records[r].name)
                   /\ Boxes(r) = <<>>
        /\ pc = "done" => Len(frames_numbers) = Len(records)

HasInconsistentRecord ==
    \E r \in 1..Len(records) : records[r].n # Len(records[r].boxes)

\* C9: a file with a record whose count disagrees with its box lines makes
\* run() end with an error: it never returns normally.
C9MalformedSurfaced == HasInconsistentRecord => pc # "done"

\* C10: every call of calculate_similarity pairs a box of the current frame
\* with a box of the frame just before it, no pair twice; a finished frame t
\* has |boxes(t-1)| * |boxes(t)| calls; and while frame t is processed
\* before_frame_data is the complete object list of frame t-1.
C10AdjacentFramesScoredOnce ==
    /\ \A i \in 1..Len(scored) :
           /\ scored[i].frame >= 1
           /\ scored[i].before_frame = scored[i].frame - 1
           /\ \A k \in 1..Len(scored) :
                  (/\ scored[k].frame = scored[i].frame
                   /\ scored[k].box = scored[i].box
                   /\ scored[k].before_box = scored[i].before_box) => k = i
    /\ \A t \in 1..(index - 1) :
           Cardinality(ScoredAt(t)) = Len(Boxes(t)) * Len(Boxes(t + 1))
    /\ (pc = "bboxes" /\ index >= 1) =>
           /\ before_frame_data.some
           /\ Len(before_frame_data.val) = Len(Boxes(index))
           /\ \A j \in 1..Len(Boxes(index)) :
                  /\ before_frame_data.val[j].frame = index - 1
                  /\ before_frame_data.val[j].box = j - 1
                  /\ before_frame_data.val[j].center = calculate_center(Boxes(index)[j])
           /\ Cardinality(ScoredAt(index)) = bpos * Len(Boxes(index))

\* C10 witness: a frame of two boxes was scored against a frame of two boxes
C10Witness ==
    /\ pc = "done"
    /\ Len(data) = 2
    /\ Len(Boxes(1)) = 2
    /\ Len(Boxes(2)) = 2
    /\ Cardinality(ScoredAt(1)) = 4

====
